---- MODULE Spec2Model ----
(***************************************************************************)
(* ComplianceAI: the detection-and-scoring engine.                         *)
(*                                                                         *)
(*   pii_detector.py          PIIDetector._deduplicate_entities            *)
(*   utils.py                 chunk_text, calculate_compliance_score       *)
(*   compliance_frameworks.py rule catalog, pattern and keyword matching   *)
(*   compliance_checker.py    ComplianceChecker.analyze_document           *)
(*                                                                         *)
(* Confidences are Python floats with two decimals in the source; they are *)
(* kept here as integer hundredths (0.85 is 85), which preserves every     *)
(* comparison the code makes.                                              *)
(***************************************************************************)
EXTENDS Integers, Sequences, FiniteSets, TLC

VARIABLES
    \* PIIDetector._deduplicate_entities
    entities,        \* the candidate list handed to _deduplicate_entities
    deduplicated,    \* the list it returned
    rpc,             \* "idle" | "input" | "done"
    \* PIIDetector._validate_pattern_match('credit_card', ...)
    cardText,        \* matched_text, a sequence of characters
    cardKept,        \* the value returned: the candidate is kept
    lpc,             \* "idle" | "input" | "done"
    \* utils.chunk_text
    cText,           \* the text, a sequence of characters
    cMaxLength,      \* max_length
    cOverlap,        \* overlap
    cStart,          \* the loop variable start (0-based, as in the source)
    cWindows,        \* the [start, end) window cut by each iteration
    cChunks,         \* the list chunks
    cpc,             \* "idle" | "entry" | "loop" | "done"
    \* the results dict that calculate_compliance_score reads
    results,         \* [violations, pii_entities, ai_insights, overall_score]
    spc,             \* "idle" | "build" (calculate_compliance_score inputs)
    \* ComplianceChecker.analyze_document
    text,            \* text_content, a sequence of words and line breaks
    frameworks,      \* self.frameworks
    includeAI,       \* self.include_ai_analysis
    nChunks,         \* len(chunk_text(text, max_length=3000)); 0 before the call
    pc,              \* position inside analyze_document
    fwIdx,           \* index of the framework being checked
    catIdx,          \* index of the rule category being checked
    chunkIdx,        \* index of the chunk handed to the AI
    violations,      \* the local list of _check_framework_compliance
    catResult,       \* what the last _check_rule_category call did
    aiCalls,         \* AI violation calls made so far, per framework
    aiResult,        \* what the last _analyze_chunk_with_ai call did
    insightCall      \* "none" | "failed" | "returned": the insight AI call

resolveVars == <<entities, deduplicated, rpc>>
luhnVars == <<cardText, cardKept, lpc>>
chunkVars == <<cText, cMaxLength, cOverlap, cStart, cWindows, cChunks, cpc>>
scoreVars == <<results, spc>>
analyzeVars == <<text, frameworks, includeAI, nChunks, pc, fwIdx, catIdx,
                 chunkIdx, violations, catResult, aiCalls, aiResult,
                 insightCall>>
vars == <<resolveVars, luhnVars, chunkVars, scoreVars, analyzeVars>>

Max(a, b) == IF a >= b THEN a ELSE b
Min(a, b) == IF a <= b THEN a ELSE b

(***************************************************************************)
(* Bounds of the explored inputs.                                          *)
(***************************************************************************)
MaxEntities == 3
MaxPos == 3
MaxTextLen == 6
MaxChunkLength == 5
MaxOverlap == 5
MaxViolations == 5
MaxPii == 3
MaxLines == 2
MaxChunks == 2
MaxCardLen == 3

\* All sequences over S of length at most n.
SeqsUpTo(S, n) == UNION {[1..k -> S] : k \in 0..n}

(***************************************************************************)
(* PII entities and EntityDeduplicator (pii_detector.py)                   *)
(***************************************************************************)
\* The (label, confidence, detection_method) triples candidates are drawn
\* from: the NER detector's fixed 0.85, and pattern registry entries of
\* 0.85 (phone) and 0.50 (bank_account).
EntityKinds ==
    { [label |-> "PERSON_NAME",  confidence |-> 85, detection_method |-> "NER"],
      [label |-> "PHONE",        confidence |-> 85, detection_method |-> "Pattern"],
      [label |-> "BANK_ACCOUNT", confidence |-> 50, detection_method |-> "Pattern"] }

Entity(k, s, e) ==
    [label |-> k.label, start |-> s, end |-> e,
     confidence |-> k.confidence, detection_method |-> k.detection_method]

\* The [start, end) spans with start < end inside the explored positions.
Spans == {iv \in (0..MaxPos) \X (0..MaxPos) : iv[1] < iv[2]}

Candidates == {Entity(k, iv[1], iv[2]) : k \in EntityKinds, iv \in Spans}

\* The sort key (x['start'], x['end']) compared as Python compares tuples.
SortKeyLE(a, b) ==
    \/ a.start < b.start
    \/ a.start = b.start /\ a.end <= b.end

\* list.sort is stable: e goes after every element whose key is <= its own.
RECURSIVE InsertSorted(_, _)
InsertSorted(s, e) ==
    IF s = <<>> THEN <<e>>
    ELSE IF SortKeyLE(s[Len(s)], e) THEN Append(s, e)
    ELSE Append(InsertSorted(SubSeq(s, 1, Len(s) - 1), e), s[Len(s)])

SortEntitiesSkippedMutant(s) == s

RECURSIVE SortEntities(_)
SortEntities(s) ==
    IF s = <<>> THEN <<>>
    ELSE InsertSorted(SortEntities(SubSeq(s, 1, Len(s) - 1)), s[Len(s)])

Overlaps(a, b) == a.start < b.end /\ a.end > b.start

\* list.remove(x): drops the first element equal to x.
RECURSIVE RemoveFirst(_, _)
RemoveFirst(s, x) ==
    IF s = <<>> THEN <<>>
    ELSE IF Head(s) = x THEN Tail(s)
    ELSE <<Head(s)>> \o RemoveFirst(Tail(s), x)

\* The body of "for entity in entities": the inner loop stops at the first
\* existing entity the candidate overlaps.
ReplaceExistingMutant(dedup, entity) ==
    LET hits == {i \in 1..Len(dedup) : Overlaps(entity, dedup[i])}
    IN  IF hits = {} THEN Append(dedup, entity)
        ELSE LET first == CHOOSE i \in hits : \A j \in hits : i <= j
             IN  IF entity.confidence > dedup[first].confidence
                 THEN Append(dedup, entity)
                 ELSE dedup

ReplaceOnTieMutant(dedup, entity) ==
    LET hits == {i \in 1..Len(dedup) : Overlaps(entity, dedup[i])}
    IN  IF hits = {} THEN Append(dedup, entity)
        ELSE LET first == CHOOSE i \in hits : \A j \in hits : i <= j
             IN  IF entity.confidence >= dedup[first].confidence
                 THEN Append(RemoveFirst(dedup, dedup[first]), entity)
                 ELSE dedup

MergeSpansMutant(dedup, entity) ==
    LET hits == {i \in 1..Len(dedup) : Overlaps(entity, dedup[i])}
    IN  IF hits = {} THEN Append(dedup, entity)
        ELSE LET first == CHOOSE i \in hits : \A j \in hits : i <= j
             IN  IF entity.confidence > dedup[first].confidence
                 THEN Append(RemoveFirst(dedup, dedup[first]),
                             [entity EXCEPT
                                 !.start = Min(@, dedup[first].start),
                                 !.end = Max(@, dedup[first].end)])
                 ELSE dedup

PrependWinnerMutant(dedup, entity) ==
    LET hits == {i \in 1..Len(dedup) : Overlaps(entity, dedup[i])}
    IN  IF hits = {} THEN Append(dedup, entity)
        ELSE LET first == CHOOSE i \in hits : \A j \in hits : i <= j
             IN  IF entity.confidence > dedup[first].confidence
                 THEN <<entity>> \o RemoveFirst(dedup, dedup[first])
                 ELSE dedup

ProcessEntity(dedup, entity) ==
    LET hits == {i \in 1..Len(dedup) : Overlaps(entity, dedup[i])}
    IN  IF hits = {} THEN Append(dedup, entity)
        ELSE LET first == CHOOSE i \in hits : \A j \in hits : i <= j
             IN  IF entity.confidence > dedup[first].confidence
                 THEN Append(RemoveFirst(dedup, dedup[first]), entity)
                 ELSE dedup

RECURSIVE DedupLoop(_, _)
DedupLoop(dedup, rest) ==
    IF rest = <<>> THEN dedup
    ELSE DedupLoop(ProcessEntity(dedup, Head(rest)), Tail(rest))

DeduplicateEntities(ents) ==
    IF ents = <<>> THEN ents
    ELSE DedupLoop(<<>>, SortEntities(ents))

(***************************************************************************)
(* Credit-card validation (pii_detector.py _validate_pattern_match,        *)
(* _luhn_check). A matched text is a sequence of characters: digits, the   *)
(* two separators the validation removes, and a letter.                    *)
(***************************************************************************)
Digits == {"0", "1", "2", "3", "4", "5", "6", "7", "8", "9"}

\* int(d) for a digit character.
DigitValue(d) ==
    CASE d = "0" -> 0 [] d = "1" -> 1 [] d = "2" -> 2 [] d = "3" -> 3
      [] d = "4" -> 4 [] d = "5" -> 5 [] d = "6" -> 6 [] d = "7" -> 7
      [] d = "8" -> 8 [] d = "9" -> 9

\* str.isdigit(): not empty and every character a digit.
IsDigit(str) == str /= <<>> /\ \A i \in 1..Len(str) : str[i] \in Digits

\* str.replace(ch, '')
Remove(str, ch) ==
    LET Keep(c) == c /= ch
    IN  SelectSeq(str, Keep)

RECURSIVE SumSeq(_)
SumSeq(ds) == IF ds = <<>> THEN 0 ELSE Head(ds) + SumSeq(Tail(ds))

LuhnCheckFromLeftMutant(card_number) ==
    IF ~IsDigit(card_number) THEN FALSE
    ELSE LET Adjusted(i) ==
                 LET d == DigitValue(card_number[i + 1])
                 IN  IF i % 2 = 0
                     THEN (IF 2 * d > 9 THEN 2 * d - 9 ELSE 2 * d)
                     ELSE d
         IN  SumSeq([k \in 1..Len(card_number) |-> Adjusted(k - 1)]) % 10 = 0

\* _luhn_check: the 0-based indices len - 2, len - 4, ... down to 0 or 1
\* are the ones range(len(digits) - 2, -1, -2) visits.
LuhnCheck(card_number) ==
    IF ~IsDigit(card_number) THEN FALSE
    ELSE LET n == Len(card_number)
             Adjusted(i) ==
                 LET d == DigitValue(card_number[i + 1])
                 IN  IF i <= n - 2 /\ (n - 2 - i) % 2 = 0
                     THEN (IF 2 * d > 9 THEN 2 * d - 9 ELSE 2 * d)
                     ELSE d
         IN  SumSeq([k \in 1..n |-> Adjusted(k - 1)]) % 10 = 0

\* _validate_pattern_match for pii_type 'credit_card' (lines 204-206).
ValidateCreditCard(matched_text) ==
    LuhnCheck(Remove(Remove(matched_text, "-"), " "))

\* Characters of the explored matched texts.
CardChars == {"0", "1", "2", "4", "5", "9", "-", " ", "x"}

Card4111Valid ==
    <<"4", "1", "1", "1", "1", "1", "1", "1", "1", "1", "1", "1", "1", "1", "1", "1">>

Card4111Invalid ==
    <<"4", "1", "1", "1", "1", "1", "1", "1", "1", "1", "1", "1", "1", "1", "1", "2">>

Card4111Dashed ==
    <<"4", "1", "1", "1", "-", "1", "1", "1", "1", "-", "1", "1", "1", "1", "-",
      "1", "1", "1", "1">>

CardInputs ==
    SeqsUpTo(CardChars, MaxCardLen)
        \cup {Card4111Valid, Card4111Invalid, Card4111Dashed}

LuhnIdle == cardText = <<>> /\ cardKept = FALSE /\ lpc = "idle"

LuhnInput == cardText \in CardInputs /\ cardKept = FALSE /\ lpc = "input"

\* _detect_with_patterns line 159 for a credit_card match: the candidate is
\* appended only if the validation returns True.
ValidateCard ==
    /\ lpc = "input"
    /\ cardKept' = ValidateCreditCard(cardText)
    /\ lpc' = "done"
    /\ UNCHANGED <<cardText, resolveVars, chunkVars, scoreVars, analyzeVars>>

(***************************************************************************)
(* TextChunker (utils.py chunk_text)                                       *)
(*                                                                         *)
(* A text is a sequence of characters; the three characters below are the  *)
(* ones chunk_text tells apart: the sentence terminator, the space (the    *)
(* only whitespace explored, so str.strip() strips spaces) and a letter.   *)
(* Python indexes from 0 and TLA+ from 1: text[i] is s[i + 1].             *)
(***************************************************************************)
Chars == {"a", ".", " "}

\* text.rfind(ch, lo, hi) for 0 <= lo and hi <= len(text): the highest index
\* in [lo, hi) holding ch, or -1.
RFind(s, ch, lo, hi) ==
    LET found == {i \in lo..(hi - 1) : s[i + 1] = ch}
    IN  IF found = {} THEN -1
        ELSE CHOOSE i \in found : \A j \in found : j <= i

\* text[lo:hi] for 0 <= lo; Python clamps hi to len(text).
Slice(s, lo, hi) == SubSeq(s, lo + 1, Min(hi, Len(s)))

\* str.strip() over the explored whitespace.
RECURSIVE LStrip(_)
LStrip(s) ==
    IF s /= <<>> /\ Head(s) = " " THEN LStrip(Tail(s)) ELSE s

RECURSIVE RStrip(_)
RStrip(s) ==
    IF s /= <<>> /\ s[Len(s)] = " " THEN RStrip(SubSeq(s, 1, Len(s) - 1)) ELSE s

Strip(s) == RStrip(LStrip(s))

CutEndInclusiveMutant(s, start, maxLength) == start + maxLength + 1

\* Lines 24-36: where the window starting at start is cut.
CutEnd(s, start, maxLength) ==
    LET end == start + maxLength
    IN  IF end < Len(s)
        THEN LET sentence_end == RFind(s, ".", start, end)
             IN  IF sentence_end > start + (maxLength \div 2)
                 THEN sentence_end + 1
                 ELSE LET word_end == RFind(s, " ", start, end)
                      IN  IF word_end > start + (maxLength \div 2)
                          THEN word_end
                          ELSE end
        ELSE end

NextStartNoMax(start, maxLength, overlap, end) == start + maxLength - overlap

\* Line 43: start = max(start + max_length - overlap, end)
NextStart(start, maxLength, overlap, end) ==
    Max(start + maxLength - overlap, end)

ChunkIdle ==
    /\ cText = <<>> /\ cMaxLength = 1 /\ cOverlap = 0 /\ cStart = 0
    /\ cWindows = <<>> /\ cChunks = <<>> /\ cpc = "idle"

ChunkInput ==
    /\ cText \in SeqsUpTo(Chars, MaxTextLen)
    /\ cMaxLength \in 1..MaxChunkLength
    /\ cOverlap \in 0..MaxOverlap
    /\ cStart = 0 /\ cWindows = <<>> /\ cChunks = <<>> /\ cpc = "entry"

\* Lines 17-21: a text no longer than max_length is returned whole.
ChunkEntry ==
    /\ cpc = "entry"
    /\ IF Len(cText) <= cMaxLength
       THEN /\ cChunks' = <<cText>>
            /\ cWindows' = <<[start |-> 0, end |-> Len(cText)]>>
            /\ cpc' = "done"
       ELSE /\ cChunks' = <<>>
            /\ cWindows' = <<>>
            /\ cpc' = "loop"
    /\ cStart' = 0
    /\ UNCHANGED <<cText, cMaxLength, cOverlap, resolveVars, luhnVars, scoreVars, analyzeVars>>

\* Lines 23-46: one iteration of the while loop.
ChunkStep ==
    /\ cpc = "loop"
    /\ cStart < Len(cText)
    /\ LET end == CutEnd(cText, cStart, cMaxLength)
           chunk == Strip(Slice(cText, cStart, end))
       IN  /\ cChunks' = IF chunk /= <<>> THEN Append(cChunks, chunk) ELSE cChunks
           /\ cWindows' = Append(cWindows,
                                 [start |-> cStart, end |-> Min(end, Len(cText))])
           /\ cStart' = NextStart(cStart, cMaxLength, cOverlap, end)
    /\ cpc' = IF cStart' >= Len(cText) THEN "done" ELSE "loop"
    /\ UNCHANGED <<cText, cMaxLength, cOverlap, resolveVars, luhnVars, scoreVars, analyzeVars>>

(***************************************************************************)
(* ComplianceScorer (utils.py calculate_compliance_score)                  *)
(***************************************************************************)
\* str.lower() and str.upper() on the strings that reach them.
Lower(str) ==
    CASE str = "High" -> "high"
      [] str = "HIGH" -> "high"
      [] str = "Medium" -> "medium"
      [] str = "Low" -> "low"
      [] str = "Critical" -> "critical"
      [] str = "Warning" -> "warning"
      [] str = "Info" -> "info"
      [] str = "Unknown" -> "unknown"
      [] str = "MEDIUM" -> "medium"
      [] str = "LOW" -> "low"
      [] str = "CRITICAL" -> "critical"
      [] str = "WARNING" -> "warning"
      [] str = "INFO" -> "info"
      [] str = "Urgent" -> "urgent"
      [] str = "We" -> "we"
      [] str = "Consent" -> "consent"
      [] str = "DPO" -> "dpo"
      [] OTHER -> str

Upper(str) ==
    CASE str = "ssn" -> "SSN"
      [] str = "credit_card" -> "CREDIT_CARD"
      [] str = "passport" -> "PASSPORT"
      [] str = "driver_license" -> "DRIVER_LICENSE"
      [] str = "email" -> "EMAIL"
      [] str = "phone" -> "PHONE"
      [] str = "bank_account" -> "BANK_ACCOUNT"
      [] OTHER -> str

\* dict.get(key, default)
Get(d, key, default) == IF key \in DOMAIN d THEN d[key] ELSE default

\* A parsed AI insight response, or the ai_insights slot of results. JSON
\* values of different types are kept apart by tags: json says whether the
\* response is a mapping, risk_assessment whether that field is absent, a
\* mapping or something else, level likewise for risk_assessment.level
\* (levelStr is its text when it is a string).
Insight(json, ra, lv, levelStr, summary) ==
    [json |-> json, risk_assessment |-> ra, level |-> lv, levelStr |-> levelStr,
     summary |-> summary, compliance_gaps |-> <<>>, strengths |-> <<>>]

\* results['ai_insights'] = {} (line 64)
EmptyInsights == Insight("object", "absent", "absent", "", "")

\* Lines 65-72: the deduction for one violation.
ViolationDeduction(violation) ==
    LET severity == Lower(Get(violation, "severity", "Medium"))
    IN  IF severity = "high" THEN 15
        ELSE IF severity = "medium" THEN 8
        ELSE IF severity = "low" THEN 3
        ELSE 0

HighRiskPii == {"SSN", "CREDIT_CARD", "PASSPORT", "DRIVER_LICENSE"}

PiiDeductionSignMutant(entity) ==
    LET entity_type == Upper(Get(entity, "label", ""))
        confidence == Get(entity, "confidence", 0)
    IN  IF entity_type \in HighRiskPii /\ confidence > 80 THEN 10
        ELSE IF confidence > 70 THEN 5
        ELSE -2

HighRiskAtThresholdMutant(entity) ==
    LET entity_type == Upper(Get(entity, "label", ""))
        confidence == Get(entity, "confidence", 0)
    IN  IF entity_type \in HighRiskPii /\ confidence >= 80 THEN 10
        ELSE IF confidence > 70 THEN 5
        ELSE 2

\* Lines 79-87: the deduction for one PII entity.
PiiDeduction(entity) ==
    LET entity_type == Upper(Get(entity, "label", ""))
        confidence == Get(entity, "confidence", 0)
    IN  IF entity_type \in HighRiskPii /\ confidence > 80 THEN 10
        ELSE IF confidence > 70 THEN 5
        ELSE 2

RECURSIVE SumViolations(_)
SumViolations(vs) ==
    IF vs = <<>> THEN 0 ELSE ViolationDeduction(Head(vs)) + SumViolations(Tail(vs))

RECURSIVE SumPii(_)
SumPii(es) ==
    IF es = <<>> THEN 0 ELSE PiiDeduction(Head(es)) + SumPii(Tail(es))

\* Lines 63-64: the loop over results['violations'].items().
RECURSIVE SumFrameworks(_, _)
SumFrameworks(byFramework, fws) ==
    IF fws = {} THEN 0
    ELSE LET fw == CHOOSE f \in fws : TRUE
         IN  SumViolations(byFramework[fw]) + SumFrameworks(byFramework, fws \ {fw})

\* Lines 90-92 raise AttributeError when ai_insights or risk_assessment is
\* not a mapping (no .get) or level is not a string (no .lower).
ScoreRaises(res) ==
    LET ai == res.ai_insights
    IN  \/ ai.json /= "object"
        \/ ai.risk_assessment = "other"
        \/ ai.risk_assessment = "object" /\ ai.level = "other"

\* Lines 90-92: risk_assessment.get('level', '').lower()
RiskLevel(ai) ==
    IF ai.risk_assessment = "object" /\ ai.level = "string"
    THEN Lower(ai.levelStr)
    ELSE ""

RiskCapOverwritesMutant(base_score, risk_level) ==
    IF risk_level = "high" THEN 60
    ELSE IF risk_level = "medium" THEN 80
    ELSE base_score

\* Lines 94-97: the cap of the AI risk assessment.
ApplyRiskCap(base_score, risk_level) ==
    IF risk_level = "high" THEN Min(base_score, 60)
    ELSE IF risk_level = "medium" THEN Min(base_score, 80)
    ELSE base_score

ClampNoFloorMutant(base_score) == Min(100, base_score)

\* Line 100: max(0, min(100, base_score))
Clamp(base_score) == Max(0, Min(100, base_score))

\* calculate_compliance_score(results), when it does not raise.
ComplianceScore(res) ==
    LET afterViolations ==
            100 - SumFrameworks(res.violations, DOMAIN res.violations)
        afterPii == afterViolations - SumPii(res.pii_entities)
    IN  Clamp(ApplyRiskCap(afterPii, RiskLevel(res.ai_insights)))

\* The severities the violations built by analyze_document carry; other
\* strings are handed to the scorer by AddRawViolation.
ScoreSeverities == {"High", "Medium", "Low"}

\* PII entities as the detectors emit them: one per branch of the deduction.
ScorePiiKinds ==
    { [label |-> "SSN",          confidence |-> 95, detection_method |-> "Pattern"],
      [label |-> "PERSON_NAME",  confidence |-> 85, detection_method |-> "NER"],
      [label |-> "BANK_ACCOUNT", confidence |-> 50, detection_method |-> "Pattern"] }

\* Well-formed AI risk assessments: none, High, medium, and a level that is
\* neither of the two.
ScoreInsights ==
    { EmptyInsights,
      Insight("object", "object", "string", "High", "s"),
      Insight("object", "object", "string", "medium", "s"),
      Insight("object", "object", "string", "Low", "s") }

ScoreViolation(sev) ==
    [framework |-> "GDPR", category |-> "c", type |-> "t", severity |-> sev,
     location |-> "Document-wide"]

ScoreIdle ==
    /\ results = [violations |-> <<>>, pii_entities |-> <<>>,
                  ai_insights |-> EmptyInsights, overall_score |-> 0]
    /\ spc = "idle"

ScoreInput ==
    /\ \E ai \in ScoreInsights :
          results = [violations |-> [fw \in {"GDPR"} |-> <<>>],
                     pii_entities |-> <<>>,
                     ai_insights |-> ai,
                     overall_score |-> ComplianceScore(
                         [violations |-> [fw \in {"GDPR"} |-> <<>>],
                          pii_entities |-> <<>>, ai_insights |-> ai])]
    /\ spc = "build"

\* One more violation in the result, and the score of the new result.
AddViolation ==
    /\ spc = "build"
    /\ Len(results.violations["GDPR"]) < MaxViolations
    /\ \E sev \in ScoreSeverities :
          LET grown == [results EXCEPT
                          !.violations["GDPR"] = Append(@, ScoreViolation(sev))]
          IN  results' = [grown EXCEPT !.overall_score = ComplianceScore(grown)]
    /\ UNCHANGED <<spc, resolveVars, luhnVars, chunkVars, analyzeVars>>

\* One more PII entity in the result, and the score of the new result.
AddPii ==
    /\ spc = "build"
    /\ Len(results.pii_entities) < MaxPii
    /\ \E k \in ScorePiiKinds :
          LET grown == [results EXCEPT
                          !.pii_entities = Append(@, Entity(k, 0, 1))]
          IN  results' = [grown EXCEPT !.overall_score = ComplianceScore(grown)]
    /\ UNCHANGED <<spc, resolveVars, luhnVars, chunkVars, analyzeVars>>

(***************************************************************************)
(* PatternLibrary and RuleMatcher (compliance_frameworks.py)               *)
(*                                                                         *)
(* A document is a sequence of words; "\n" is the line break. A regex      *)
(* literal or a keyword matches a word when the lower-cased word contains  *)
(* it, so a literal is the set of explored words containing it. Every      *)
(* modelled regex has the shape  l1.*l2.*...ln(?!.*(a1|a2|...)) : "." does *)
(* not match a line break, so a match lies inside one line; the greedy ".*"*)
(* ends it at the line's last ln, and the lookahead prevents it exactly    *)
(* when an alternative follows that word on the same line. Hence a line    *)
(* holds at most one match, which starts at the line's first l1 that       *)
(* begins a chain l1 < l2 < ... < ln.                                      *)
(***************************************************************************)
Pattern(type, severity, lits, neg) ==
    [type |-> type, severity |-> severity, lits |-> lits, neg |-> neg]

\* _define_gdpr_rules, categories in dict order.
GdprRules ==
    << [category |-> "data_protection",
        required_keywords |->
            << << <<"data", "protection">>, <<"personal", "data">> >>,
               << <<"lawful", "basis">>, <<"legitimate", "interest">>, <<"consent">> >>,
               << <<"data", "subject", "rights">>, <<"right", "to", "erasure">>,
                  <<"right", "to", "rectification">> >> >>,
        patterns |->
            << Pattern("Missing Consent Mechanism", "high",
                       << {"collect"}, {"personal"}, {"data"} >>,
                       { << {"consent"} >> }),
               Pattern("Vague Data Processing Purpose", "medium",
                       << {"process"}, {"data"}, {"for"}, {"business"},
                          {"purpose", "purposes"} >>,
                       { << {"specific"} >> }),
               Pattern("Missing Data Retention Policy", "medium",
                       << {"retain"}, {"data"} >>,
                       { << {"period"} >>, << {"time"} >>, << {"duration"} >> }) >> ],
       [category |-> "privacy_rights",
        required_keywords |->
            << << <<"right", "to", "access">>, <<"data", "portability">> >>,
               << <<"data", "protection", "officer">>, <<"DPO">> >>,
               << <<"privacy", "by", "design">>, <<"privacy", "by", "default">> >> >>,
        patterns |->
            << Pattern("Missing Subject Rights", "high",
                       << {"personal"}, {"data"} >>,
                       { << {"right"}, {"to"}, {"access"} >>,
                         << {"right"}, {"to"}, {"erasure"} >>,
                         << {"right"}, {"to"}, {"rectification"} >> }) >> ],
       [category |-> "international_transfers",
        required_keywords |->
            << << <<"adequate", "protection">>,
                  <<"standard", "contractual", "clauses">> >>,
               << <<"third", "country">>, <<"international", "transfer">> >> >>,
        patterns |->
            << Pattern("Unprotected International Transfer", "high",
                       << {"transfer", "share", "send"}, {"data"},
                          {"outside", "abroad", "international"} >>,
                       { << {"adequate"} >>, << {"protection"} >>,
                         << {"safeguards"} >> }) >> ] >>

\* _define_soc2_rules, categories in dict order.
Soc2Rules ==
    << [category |-> "security",
        required_keywords |->
            << << <<"access", "controls">>, <<"authentication">> >>,
               << <<"encryption">>, <<"data", "encryption">> >>,
               << <<"vulnerability", "management">>, <<"security", "monitoring">> >> >>,
        patterns |->
            << Pattern("Weak Access Control", "high",
                       << {"access"}, {"system"} >>,
                       { << {"authentication"} >>, << {"authorization"} >>,
                         << {"multi-factor"} >> }),
               Pattern("Unencrypted Data Storage", "high",
                       << {"store"}, {"data"} >>,
                       { << {"encrypt", "encrypted", "encryption"} >> }) >> ],
       [category |-> "availability",
        required_keywords |->
            << << <<"backup">>, <<"disaster", "recovery">> >>,
               << <<"business", "continuity">>, <<"redundancy">> >>,
               << <<"uptime">>, <<"service", "level", "agreement">> >> >>,
        patterns |->
            << Pattern("Missing Backup Strategy", "medium",
                       << {"critical"}, {"data"} >>,
                       { << {"backup"} >>, << {"recovery"} >> }) >> ],
       [category |-> "processing_integrity",
        required_keywords |->
            << << <<"data", "validation">>, <<"input", "validation">> >>,
               << <<"error", "handling">>, <<"exception", "handling">> >>,
               << <<"audit", "trail">>, <<"logging">> >> >>,
        patterns |->
            << Pattern("Missing Input Validation", "high",
                       << {"user"}, {"input"} >>,
                       { << {"validate", "validation"} >>, << {"sanitize"} >>,
                         << {"check"} >> }) >> ] >>

\* get_framework_rules: self.frameworks.get(framework, {})
FrameworkRules(framework) ==
    CASE framework = "GDPR" -> GdprRules
      [] framework = "SOC2" -> Soc2Rules
      [] OTHER -> <<>>

\* The word at 1-based position i is one of the words in S, case-insensitively.
LitAt(t, i, S) == i \in 1..Len(t) /\ Lower(t[i]) \in S

SameLine(t, i, j) == \A k \in i..j : t[k] /= "\n"

\* The last position of the line that holds position p.
LineEnd(t, p) ==
    CHOOSE q \in p..Len(t) :
        SameLine(t, p, q) /\ (q = Len(t) \/ t[q + 1] = "\n")

\* l_k at p, and the later literals in order further along the same line.
RECURSIVE ChainFrom(_, _, _, _)
ChainFrom(t, p, lits, k) ==
    /\ LitAt(t, p, lits[k])
    /\ \/ k = Len(lits)
       \/ \E q \in (p + 1)..LineEnd(t, p) : ChainFrom(t, q, lits, k + 1)

\* The words of phrase ph stand at i, i+1, ... (a line break matches none).
PhraseAt(t, i, ph) == \A k \in 1..Len(ph) : LitAt(t, i + k - 1, ph[k])

\* (?!.*(a1|a2|...)) fails after position q: an alternative follows on the line.
NegAfter(t, q, neg) ==
    \E ph \in neg : \E i \in (q + 1)..LineEnd(t, q) : PhraseAt(t, i, ph)

\* Where a match that starts at p ends: the line's last word matching ln.
MatchEnd(t, p, lits) ==
    CHOOSE q \in p..LineEnd(t, p) :
        /\ LitAt(t, q, lits[Len(lits)])
        /\ \A r \in (q + 1)..LineEnd(t, p) : ~LitAt(t, r, lits[Len(lits)])

\* The start positions of re.finditer's matches.
MatchStarts(t, pat) ==
    {p \in 1..Len(t) :
        /\ t[p] /= "\n"
        /\ ChainFrom(t, p, pat.lits, 1)
        /\ \A r \in 1..(p - 1) :
              SameLine(t, r, p) => ~ChainFrom(t, r, pat.lits, 1)
        /\ ~NegAfter(t, MatchEnd(t, p, pat.lits), pat.neg)}

RECURSIVE SortedSeq(_)
SortedSeq(S) ==
    IF S = {} THEN <<>>
    ELSE LET m == CHOOSE x \in S : \A y \in S : x <= y
         IN  <<m>> \o SortedSeq(S \ {m})

\* find_pattern_matches: the matches in text order, with 0-based word offsets
\* [start, end) standing for the character offsets.
FindPatternMatches(t, pat) ==
    LET starts == SortedSeq(MatchStarts(t, pat))
    IN  [n \in 1..Len(starts) |->
            [start |-> starts[n] - 1, end |-> MatchEnd(t, starts[n], pat.lits)]]

\* keyword.lower() in text_lower, for a keyword given as its words.
KeywordIn(t, keyword) ==
    \E i \in 1..Len(t) :
        \A k \in 1..Len(keyword) : LitAt(t, i + k - 1, {Lower(keyword[k])})

\* check_keyword_presence: any keyword of the group is in the text.
CheckKeywordPresence(t, keywords) ==
    \E n \in 1..Len(keywords) : KeywordIn(t, keywords[n])

(***************************************************************************)
(* ComplianceOrchestrator (compliance_checker.py)                          *)
(***************************************************************************)
DetermineSeverityIdentityMutant(severity_input) == severity_input

DetermineSeverityCaseSensitiveMutant(severity_input) ==
    CASE severity_input = "high" -> "High"
      [] severity_input = "medium" -> "Medium"
      [] severity_input = "low" -> "Low"
      [] severity_input = "critical" -> "High"
      [] severity_input = "warning" -> "Medium"
      [] severity_input = "info" -> "Low"
      [] OTHER -> "Medium"

\* _determine_severity: severity_map.get(severity_input.lower(), 'Medium')
DetermineSeverity(severity_input) ==
    LET key == Lower(severity_input)
    IN  CASE key = "high" -> "High"
          [] key = "medium" -> "Medium"
          [] key = "low" -> "Low"
          [] key = "critical" -> "High"
          [] key = "warning" -> "Medium"
          [] key = "info" -> "Low"
          [] OTHER -> "Medium"

Location(kind, a, b) == [kind |-> kind, a |-> a, b |-> b]

\* Lines 136-145: the violation of one pattern match.
PatternViolation(framework, category, pat, match) ==
    [framework |-> framework, category |-> category, type |-> pat.type,
     severity |-> DetermineSeverity(pat.severity),
     location |-> Location("Position", match.start, match.end)]

\* Lines 133-146: the violations of one pattern, in match order.
PatternViolations(t, framework, category, pat) ==
    LET matches == FindPatternMatches(t, pat)
    IN  [n \in 1..Len(matches) |->
            PatternViolation(framework, category, pat, matches[n])]

RECURSIVE AllPatternViolations(_, _, _, _)
AllPatternViolations(t, framework, category, patterns) ==
    IF patterns = <<>> THEN <<>>
    ELSE PatternViolations(t, framework, category, Head(patterns))
         \o AllPatternViolations(t, framework, category, Tail(patterns))

\* Lines 149-153: the keyword groups none of whose phrases is in the text.
RECURSIVE MissingKeywords(_, _)
MissingKeywords(t, groups) ==
    IF groups = <<>> THEN <<>>
    ELSE (IF CheckKeywordPresence(t, Head(groups)) THEN <<>> ELSE <<Head(groups)>>)
         \o MissingKeywords(t, Tail(groups))

\* Line 160: ", ".join(missing_keywords). str.join raises TypeError on an
\* item that is not a str, and every item of missing_keywords is a keyword
\* group, a list (compliance_frameworks.py lines 23-27).
JoinRaises(missing_keywords) == missing_keywords /= <<>>

\* Lines 156-165.
MissingContentViolation(framework, category) ==
    [framework |-> framework, category |-> category,
     type |-> "Missing Required Content", severity |-> "Medium",
     location |-> Location("Document-wide", 0, 0)]

\* _check_rule_category: the list it returns, or raised when the exception
\* of line 160 leaves it.
CheckRuleCategory(t, category, rules, framework) ==
    LET found == AllPatternViolations(t, framework, category, rules.patterns)
        missing_keywords == MissingKeywords(t, rules.required_keywords)
    IN  IF missing_keywords = <<>>
        THEN [raised |-> FALSE, violations |-> found]
        ELSE IF JoinRaises(missing_keywords)
        THEN [raised |-> TRUE, violations |-> <<>>]
        ELSE [raised |-> FALSE,
              violations |-> Append(found,
                                    MissingContentViolation(framework, category))]

\* What the AI violation call can come back with: an exception (network,
\* timeout, invalid JSON), or a JSON object with a list of findings whose
\* severity is a string or (sevIsStr FALSE) something else.
AiChunkOutcomes ==
    { [ok |-> FALSE, findings |-> <<>>],
      [ok |-> TRUE, findings |-> <<>>],
      [ok |-> TRUE, findings |-> <<[type |-> "AI Gap", severity |-> "Critical",
                                    sevIsStr |-> TRUE]>>],
      [ok |-> TRUE, findings |-> <<[type |-> "AI Gap", severity |-> "",
                                    sevIsStr |-> FALSE]>>] }

\* An exception inside the try of _analyze_chunk_with_ai: the request fails
\* or the response is not JSON (line 192-209), or a finding's severity has
\* no .lower() (line 217).
AiChunkRaises(outcome) ==
    \/ ~outcome.ok
    \/ \E n \in 1..Len(outcome.findings) : ~outcome.findings[n].sevIsStr

AnalyzeChunkErrorEntryMutant(outcome, framework, chunk_index) ==
    IF AiChunkRaises(outcome)
    THEN <<[framework |-> framework, category |-> "AI Detection",
            type |-> "AI Error", severity |-> "Medium",
            location |-> Location("Chunk", chunk_index + 1, 0)]>>
    ELSE [n \in 1..Len(outcome.findings) |->
            [framework |-> framework, category |-> "AI Detection",
             type |-> outcome.findings[n].type,
             severity |-> DetermineSeverity(outcome.findings[n].severity),
             location |-> Location("Chunk", chunk_index + 1, 0)]]

\* Lines 187-229: _analyze_chunk_with_ai. Any exception inside the try,
\* severity.lower() on a non-string included, yields [].
AnalyzeChunkWithAi(outcome, framework, chunk_index) ==
    IF AiChunkRaises(outcome) THEN <<>>
    ELSE [n \in 1..Len(outcome.findings) |->
            [framework |-> framework, category |-> "AI Detection",
             type |-> outcome.findings[n].type,
             severity |-> DetermineSeverity(outcome.findings[n].severity),
             location |-> Location("Chunk", chunk_index + 1, 0)]]

FallbackHighRiskMutant ==
    Insight("object", "object", "string", "high", "AI analysis unavailable")

FallbackMediumRiskMutant ==
    Insight("object", "object", "string", "medium", "AI analysis unavailable")

\* Lines 326-332: the fixed fallback of _perform_ai_analysis.
FallbackInsights ==
    Insight("object", "object", "string", "unknown", "AI analysis unavailable")

\* What the insight call can come back with: an exception, or any JSON value.
InsightOutcomes ==
    { [ok |-> FALSE, value |-> EmptyInsights],
      [ok |-> TRUE, value |-> Insight("object", "object", "string", "High", "s")],
      [ok |-> TRUE, value |-> Insight("object", "absent", "absent", "", "s")],
      [ok |-> TRUE, value |-> Insight("other", "absent", "absent", "", "")],
      [ok |-> TRUE, value |-> Insight("object", "other", "absent", "", "s")],
      [ok |-> TRUE, value |-> Insight("object", "object", "other", "", "s")] }

\* Lines 277-332: _perform_ai_analysis returns json.loads(...) or the fallback.
PerformAiAnalysis(outcome) ==
    IF outcome.ok THEN outcome.value ELSE FallbackInsights

\* detect_pii line 119: sort(key=start), stable.
RECURSIVE InsertByStart(_, _)
InsertByStart(s, e) ==
    IF s = <<>> THEN <<e>>
    ELSE IF s[Len(s)].start <= e.start THEN Append(s, e)
    ELSE Append(InsertByStart(SubSeq(s, 1, Len(s) - 1), e), s[Len(s)])

RECURSIVE SortByStart(_)
SortByStart(s) ==
    IF s = <<>> THEN <<>>
    ELSE InsertByStart(SortByStart(SubSeq(s, 1, Len(s) - 1)), s[Len(s)])

\* detect_pii lines 104-121, from the candidates of both detectors.
DetectPii(candidates) == SortByStart(DeduplicateEntities(candidates))

\* The lines documents are made of.
DocLines ==
    { <<"We", "collect", "personal", "data", "from", "users">>,
      <<"we", "collect", "personal", "data", "with", "consent">>,
      <<"Consent", "is", "obtained">>,
      <<"we", "retain", "data">>,
      <<"data", "protection", "lawful", "basis", "data", "subject", "rights">>,
      <<"right", "to", "access", "DPO", "privacy", "by", "design",
        "adequate", "protection", "third", "country">>,
      <<"we", "store", "data">>,
      <<"data", "protection", "lawful", "basis", "data", "subject", "rights",
        "right", "to", "access", "DPO", "privacy", "by", "design",
        "adequate", "protection", "third", "country">>,
      <<"authentication", "encryption", "security", "monitoring", "backup",
        "redundancy", "uptime", "data", "validation", "error", "handling",
        "logging">> }

\* "\n".join(lines)
RECURSIVE JoinLines(_)
JoinLines(lines) ==
    IF lines = <<>> THEN <<>>
    ELSE IF Len(lines) = 1 THEN lines[1]
    ELSE lines[1] \o <<"\n">> \o JoinLines(Tail(lines))

\* Documents with content.
Documents == {JoinLines(ls) : ls \in SeqsUpTo(DocLines, MaxLines) \ {<<>>}}

\* The empty text and a text of line breaks only.
BlankDocuments == { <<>>, <<"\n">> }

\* app.py line 101: not text_content.strip()
IsBlank(t) == \A i \in 1..Len(t) : t[i] = "\n"

FrameworkLists == { <<"GDPR">>, <<"GDPR", "SOC2">> }

\* Candidate lists the two PII detectors hand to the deduplicator.
AnalyzeCandidates ==
    { <<>>,
      << Entity([label |-> "BANK_ACCOUNT", confidence |-> 50,
                 detection_method |-> "Pattern"], 1, 3),
         Entity([label |-> "SSN", confidence |-> 95,
                 detection_method |-> "Pattern"], 0, 2) >> }

NoAiResult ==
    [framework |-> "", chunk_index |-> 0, failed |-> FALSE, findings |-> <<>>,
     violations |-> <<>>]

NoCategoryResult ==
    [framework |-> "", category |-> "", raised |-> FALSE, violations |-> <<>>]

AnalyzeIdle ==
    /\ text = <<>> /\ frameworks = <<>> /\ includeAI = FALSE /\ nChunks = 0
    /\ pc = "idle" /\ fwIdx = 1 /\ catIdx = 1 /\ chunkIdx = 1
    /\ violations = <<>> /\ catResult = NoCategoryResult
    /\ aiCalls = [fw \in {"GDPR", "SOC2"} |-> 0] /\ insightCall = "none"
    /\ aiResult = NoAiResult

\* analyze_document lines 61-67, for a checker built with these settings.
\* The method itself takes any string, a blank one included.
AnalyzeInput ==
    /\ text \in Documents \cup BlankDocuments
    /\ frameworks \in FrameworkLists
    /\ includeAI \in BOOLEAN
    /\ nChunks = 0
    /\ pc = "rules" /\ fwIdx = 1 /\ catIdx = 1 /\ chunkIdx = 1
    /\ violations = <<>> /\ catResult = NoCategoryResult
    /\ aiCalls = [fw \in {"GDPR", "SOC2"} |-> 0] /\ insightCall = "none"
    /\ aiResult = NoAiResult
    /\ results = [violations |-> <<>>, pii_entities |-> <<>>,
                  ai_insights |-> EmptyInsights, overall_score |-> 0]
    /\ spc = "idle"

\* Severity strings an AI finding may carry: every key of severity_map in
\* several cases, strings that are no key, and the empty string.
SeverityInputs ==
    {"high", "High", "HIGH", "critical", "Critical", "CRITICAL",
     "medium", "Medium", "MEDIUM", "warning", "Warning", "WARNING",
     "low", "Low", "LOW", "info", "Info", "INFO", "urgent", "Urgent", ""}

\* AI responses with one finding of each of these severities.
SeverityOutcomes ==
    { [ok |-> TRUE, findings |-> <<[type |-> "AI Gap", severity |-> sev,
                                    sevIsStr |-> TRUE]>>] : sev \in SeverityInputs }

\* The documents whose GDPR rule check raises in no category, so that the AI
\* check of lines 118-120 is reached.
AiReachingDocuments ==
    {d \in Documents :
        \A c \in 1..Len(GdprRules) :
            ~CheckRuleCategory(d, GdprRules[c].category, GdprRules[c], "GDPR").raised}

\* analyze_document for GDPR with AI analysis enabled on such a document.
SeverityInput ==
    /\ text \in AiReachingDocuments
    /\ frameworks = <<"GDPR">>
    /\ includeAI = TRUE
    /\ nChunks = 0
    /\ pc = "rules" /\ fwIdx = 1 /\ catIdx = 1 /\ chunkIdx = 1
    /\ violations = <<>> /\ catResult = NoCategoryResult
    /\ aiCalls = [fw \in {"GDPR", "SOC2"} |-> 0] /\ insightCall = "none"
    /\ aiResult = NoAiResult
    /\ results = [violations |-> <<>>, pii_entities |-> <<>>,
                  ai_insights |-> EmptyInsights, overall_score |-> 0]
    /\ spc = "idle"

\* app.py main, lines 101-103: the upload handler shows 'No text content
\* found in the document.' and returns without building a checker.
MainRejected ==
    /\ text \in BlankDocuments
    /\ IsBlank(text)
    /\ frameworks \in FrameworkLists
    /\ includeAI \in BOOLEAN
    /\ nChunks = 0
    /\ pc = "rejected" /\ fwIdx = 1 /\ catIdx = 1 /\ chunkIdx = 1
    /\ violations = <<>> /\ catResult = NoCategoryResult
    /\ aiCalls = [fw \in {"GDPR", "SOC2"} |-> 0] /\ insightCall = "none"
    /\ aiResult = NoAiResult
    /\ results = [violations |-> <<>>, pii_entities |-> <<>>,
                  ai_insights |-> EmptyInsights, overall_score |-> 0]
    /\ spc = "idle"

\* Line 73 and the loop of line 71: _check_framework_compliance returned vs.
FinishFramework(vs) ==
    /\ results' = [results EXCEPT
                     !.violations = (frameworks[fwIdx] :> vs) @@ @]
    /\ violations' = <<>>
    /\ catIdx' = 1
    /\ chunkIdx' = 1
    /\ IF fwIdx < Len(frameworks)
       THEN fwIdx' = fwIdx + 1 /\ pc' = "rules"
       ELSE fwIdx' = fwIdx /\ pc' = "pii"

\* Line 176: chunk_text(text, max_length=3000). The words of the document
\* stand for a text of any length, so the number of chunks is drawn; the
\* same text gives the same chunks for every framework.
ChunkForAi ==
    IF nChunks = 0 THEN nChunks' \in 1..MaxChunks ELSE nChunks' = nChunks

\* Lines 113-115 with the handler of lines 122-125: one _check_rule_category
\* call. An exception leaving it ends the framework's check with the
\* violations extended so far, the AI check of lines 118-120 skipped.
CheckCategory ==
    /\ pc = "rules"
    /\ LET fw == frameworks[fwIdx]
           cats == FrameworkRules(fw)
           r == CheckRuleCategory(text, cats[catIdx].category, cats[catIdx], fw)
       IN  /\ catResult' = [framework |-> fw, category |-> cats[catIdx].category,
                            raised |-> r.raised, violations |-> r.violations]
           /\ IF r.raised
              THEN FinishFramework(violations)
              ELSE IF catIdx < Len(cats)
              THEN /\ violations' = violations \o r.violations
                   /\ catIdx' = catIdx + 1
                   /\ UNCHANGED <<results, pc, fwIdx, chunkIdx>>
              ELSE IF includeAI
              THEN /\ violations' = violations \o r.violations
                   /\ pc' = "ai"
                   /\ ChunkForAi
                   /\ UNCHANGED <<results, fwIdx, catIdx, chunkIdx>>
              ELSE FinishFramework(violations \o r.violations)
           /\ (r.raised \/ catIdx < Len(cats) \/ ~includeAI) => UNCHANGED nChunks
    /\ UNCHANGED <<text, frameworks, includeAI, aiCalls, aiResult, insightCall,
                   spc, resolveVars, luhnVars, chunkVars>>

\* Lines 178-179 up to the request of lines 192-207: the AI violation
\* capability is invoked for the chunk and the caller waits for it. The
\* request carries no timeout argument.
AiCall ==
    /\ pc = "ai"
    /\ aiCalls' = [aiCalls EXCEPT ![frameworks[fwIdx]] = @ + 1]
    /\ pc' = "ai_wait"
    /\ UNCHANGED <<text, frameworks, includeAI, nChunks, fwIdx, catIdx, chunkIdx,
                   violations, catResult, aiResult, insightCall,
                   results, spc, resolveVars, luhnVars, chunkVars>>

\* Line 180 and the end of the loop: chunk_violations extend the list; after
\* the last chunk _check_framework_compliance returns.
AiExtend(chunk_violations) ==
    IF chunkIdx < nChunks
    THEN /\ violations' = violations \o chunk_violations
         /\ chunkIdx' = chunkIdx + 1
         /\ pc' = "ai"
         /\ UNCHANGED <<results, fwIdx, catIdx>>
    ELSE FinishFramework(violations \o chunk_violations)

\* The call of _analyze_chunk_with_ai ends with this outcome.
AiChunkWith(outcome) ==
    LET fw == frameworks[fwIdx]
        vs == AnalyzeChunkWithAi(outcome, fw, chunkIdx - 1)
    IN  /\ aiResult' = [framework |-> fw, chunk_index |-> chunkIdx - 1,
                        failed |-> AiChunkRaises(outcome),
                        findings |-> outcome.findings, violations |-> vs]
        /\ AiExtend(vs)

\* Lines 209-229: the pending call ends, with one of the given outcomes.
AiChunkReturn(outcomes) ==
    /\ pc = "ai_wait"
    /\ \E outcome \in outcomes : AiChunkWith(outcome)
    /\ UNCHANGED <<text, frameworks, includeAI, nChunks, catResult, aiCalls,
                   insightCall, spc, resolveVars, luhnVars, chunkVars>>

AiChunk == AiChunkReturn(AiChunkOutcomes)

\* Lines 209-229 for a response whose finding has one of SeverityInputs.
AiChunkSeverity == AiChunkReturn(SeverityOutcomes)

DetectPiiThenInsightsMutant ==
    /\ pc = "pii"
    /\ \E candidates \in AnalyzeCandidates :
          results' = [results EXCEPT !.pii_entities = DetectPii(candidates)]
    /\ pc' = "insights"
    /\ UNCHANGED <<text, frameworks, includeAI, nChunks, fwIdx, catIdx, chunkIdx,
                   violations, catResult, aiCalls, aiResult, insightCall,
                   spc, resolveVars, luhnVars, chunkVars>>

\* Lines 76-77: PII detection.
DetectPiiStep ==
    /\ pc = "pii"
    /\ \E candidates \in AnalyzeCandidates :
          results' = [results EXCEPT !.pii_entities = DetectPii(candidates)]
    /\ pc' = IF includeAI THEN "insights" ELSE "score"
    /\ UNCHANGED <<text, frameworks, includeAI, nChunks, fwIdx, catIdx, chunkIdx,
                   violations, catResult, aiCalls, aiResult, insightCall,
                   spc, resolveVars, luhnVars, chunkVars>>

\* Lines 80-81: the document-insight AI call, ending with one of the given
\* outcomes.
AiInsightsReturn(outcomes) ==
    /\ pc = "insights"
    /\ \E outcome \in outcomes :
          /\ results' = [results EXCEPT !.ai_insights = PerformAiAnalysis(outcome)]
          /\ insightCall' = IF outcome.ok THEN "returned" ELSE "failed"
    /\ pc' = "score"
    /\ UNCHANGED <<text, frameworks, includeAI, nChunks, fwIdx, catIdx, chunkIdx,
                   violations, catResult, aiCalls, aiResult,
                   spc, resolveVars, luhnVars, chunkVars>>

AiInsights == AiInsightsReturn(InsightOutcomes)

\* Lines 209, 326 and 221-229: every request to the AI service raises.
AiChunkFails == AiChunkReturn({o \in AiChunkOutcomes : ~o.ok})
AiInsightsFail == AiInsightsReturn({o \in InsightOutcomes : ~o.ok})

\* Lines 84-93: the score, or the exception of line 91 when scoring raises.
ComputeScore ==
    /\ pc = "score"
    /\ IF ScoreRaises(results)
       THEN pc' = "raised" /\ UNCHANGED results
       ELSE /\ results' = [results EXCEPT !.overall_score = ComplianceScore(results)]
            /\ pc' = "done"
    /\ UNCHANGED <<text, frameworks, includeAI, nChunks, fwIdx, catIdx, chunkIdx,
                   violations, catResult, aiCalls, aiResult, insightCall,
                   spc, resolveVars, luhnVars, chunkVars>>

\* Violation dicts as calculate_compliance_score may be handed them: the
\* severity is any string, in any case, or the key is missing.
RawSeverities ==
    {"High", "critical", "Medium", "warning", "Low", "info", "urgent"}

RawViolations ==
    {ScoreViolation(sev) : sev \in RawSeverities}
        \cup {[framework |-> "GDPR", category |-> "c", type |-> "t",
                location |-> "Document-wide"]}

\* calculate_compliance_score on a result without PII and AI insights.
RawViolationInput ==
    /\ results = [violations |-> [fw \in {"GDPR"} |-> <<>>],
                  pii_entities |-> <<>>, ai_insights |-> EmptyInsights,
                  overall_score |-> 100]
    /\ spc = "violations"

\* One more violation in that result, and the score of the new result.
AddRawViolation ==
    /\ spc = "violations"
    /\ Len(results.violations["GDPR"]) < MaxViolations
    /\ \E v \in RawViolations :
          LET r == [results EXCEPT !.violations["GDPR"] = Append(@, v)]
          IN  results' = [r EXCEPT !.overall_score = ComplianceScore(r)]
    /\ UNCHANGED <<spc, resolveVars, luhnVars, chunkVars, analyzeVars>>

\* PII entities of every branch of the deduction, the thresholds 0.8 and
\* 0.7 themselves included; confidences are those of the pattern registry.
RawPiiKinds ==
    { [label |-> "SSN",            confidence |-> 95, detection_method |-> "Pattern"],
      [label |-> "ssn",            confidence |-> 95, detection_method |-> "Pattern"],
      [label |-> "SSN",            confidence |-> 60, detection_method |-> "Pattern"],
      [label |-> "CREDIT_CARD",    confidence |-> 80, detection_method |-> "Pattern"],
      [label |-> "PASSPORT",       confidence |-> 75, detection_method |-> "Pattern"],
      [label |-> "DRIVER_LICENSE", confidence |-> 70, detection_method |-> "Pattern"],
      [label |-> "EMAIL",          confidence |-> 95, detection_method |-> "Pattern"],
      [label |-> "BANK_ACCOUNT",   confidence |-> 50, detection_method |-> "Pattern"] }

\* calculate_compliance_score on a result without violations and AI insights.
RawPiiInput ==
    /\ results = [violations |-> [fw \in {"GDPR"} |-> <<>>],
                  pii_entities |-> <<>>, ai_insights |-> EmptyInsights,
                  overall_score |-> 100]
    /\ spc = "pii"

\* One more PII entity in that result, and the score of the new result.
AddRawPii ==
    /\ spc = "pii"
    /\ Len(results.pii_entities) < MaxPii
    /\ \E k \in RawPiiKinds :
          LET r == [results EXCEPT
                      !.pii_entities = Append(@, Entity(k, 0, 1))]
          IN  results' = [r EXCEPT !.overall_score = ComplianceScore(r)]
    /\ UNCHANGED <<spc, resolveVars, luhnVars, chunkVars, analyzeVars>>

ResolveIdle == entities = <<>> /\ deduplicated = <<>> /\ rpc = "idle"

ResolveInput == entities \in SeqsUpTo(Candidates, MaxEntities)
                /\ deduplicated = <<>> /\ rpc = "input"

\* One call of _deduplicate_entities on the drawn candidate list.
Resolve ==
    /\ rpc = "input"
    /\ deduplicated' = DeduplicateEntities(entities)
    /\ rpc' = "done"
    /\ UNCHANGED <<entities, luhnVars, chunkVars, scoreVars, analyzeVars>>

\* _deduplicate_entities called on the list it returned.
ResolveAgain ==
    /\ rpc = "done"
    /\ entities' = deduplicated
    /\ deduplicated' = DeduplicateEntities(deduplicated)
    /\ rpc' = "again"
    /\ UNCHANGED <<luhnVars, chunkVars, scoreVars, analyzeVars>>

InitResolve == ResolveInput /\ LuhnIdle /\ ChunkIdle /\ ScoreIdle /\ AnalyzeIdle
NextResolve == Resolve \/ ResolveAgain
SpecResolve == InitResolve /\ [][NextResolve]_vars

\* C1: the list returned by resolve holds no two entities whose [start, end)
\* ranges overlap.
C1_NoOverlapInOutput ==
    rpc = "done" =>
        \A i, j \in 1..Len(deduplicated) :
            i /= j => ~Overlaps(deduplicated[i], deduplicated[j])

\* C1 witness: a candidate replaced an accepted entity and a later candidate
\* was then tested against the replacement.
C1_Witness ==
    /\ rpc = "done"
    /\ Len(entities) = 3
    /\ Len(deduplicated) = 1
    /\ \A i, j \in 1..3 : Overlaps(entities[i], entities[j])
    /\ \E i \in 1..3 : entities[i].confidence < deduplicated[1].confidence

InitChunk == ChunkInput /\ ResolveIdle /\ LuhnIdle /\ ScoreIdle /\ AnalyzeIdle
NextChunk == ChunkEntry \/ ChunkStep
\* chunk_text is straight-line sequential code: an enabled step is taken.
SpecChunk == InitChunk /\ [][NextChunk]_vars /\ WF_vars(NextChunk)

\* C6: chunk terminates for every text, maxLength >= 1 and overlap >= 0,
\* overlap >= maxLength - 1 included: every loop iteration strictly increases
\* start, and the loop is re-entered only with start < len(text) (where its
\* next iteration is enabled), so it returns after at most len(text) rounds.
C6_ChunkTerminates ==
    [][ /\ cpc = "loop" => cStart' > cStart
        /\ cpc' = "loop" => cStart' < Len(cText')
        /\ cpc' \in {"loop", "done"} ]_vars

\* C6 witness: the loop ran more than once and returned although
\* overlap >= maxLength - 1.
C6_Witness ==
    /\ cpc = "done"
    /\ cOverlap >= cMaxLength - 1
    /\ Len(cWindows) >= 3

\* C7: with overlap < maxLength no character of the text is dropped between
\* one chunk's cut and the next window's start. Chunks are stripped, so only
\* the characters strip() cannot remove are asked for: each of them lies
\* inside the window of some chunk.
C7_NoContentDropped ==
    (cpc = "done" /\ cOverlap < cMaxLength) =>
        \A i \in 0..(Len(cText) - 1) :
            cText[i + 1] /= " " =>
                \E w \in 1..Len(cWindows) :
                    cWindows[w].start <= i /\ i < cWindows[w].end

InitScore == ScoreInput /\ ResolveIdle /\ LuhnIdle /\ ChunkIdle /\ AnalyzeIdle
NextScore == AddViolation \/ AddPii
SpecScore == InitScore /\ [][NextScore]_vars

\* C2: for every result the score is an integer in 0..100.
C2_ScoreInRange ==
    spc = "build" => results.overall_score \in 0..100

\* C2 witness: the deductions exceed 100, so the lower clamp decides.
C2_Witness ==
    /\ spc = "build"
    /\ SumFrameworks(results.violations, DOMAIN results.violations)
         + SumPii(results.pii_entities) > 100
    /\ results.overall_score = 0

\* C3: adding one violation or one PII entity, the risk level unchanged,
\* never yields a higher score.
C3_ScoreMonotone ==
    [][results'.ai_insights = results.ai_insights
          => results'.overall_score <= results.overall_score]_vars

\* C3 witness: a result whose score an addition lowered below the cap of its
\* risk level.
C3_Witness ==
    /\ spc = "build"
    /\ RiskLevel(results.ai_insights) = "high"
    /\ Len(results.pii_entities) > 0
    /\ Len(results.violations["GDPR"]) > 0
    /\ results.overall_score < 60

\* A call of analyze_document, or the upload handler turning a blank text away.
Init == (AnalyzeInput \/ MainRejected) /\ ResolveIdle /\ LuhnIdle /\ ChunkIdle
Next == CheckCategory \/ AiCall \/ AiChunk \/ DetectPiiStep \/ AiInsights \/ ComputeScore
Spec == Init /\ [][Next]_vars

\* The violations of type ty and severity sev in the list vs.
ViolationsOf(vs, ty, sev) ==
    {n \in 1..Len(vs) : vs[n].type = ty /\ vs[n].severity = sev}

\* The document states that personal data is collected: it matches the
\* 'Missing Consent Mechanism' pattern.
StatesCollection(t) == MatchStarts(t, GdprRules[1].patterns[1]) /= {}

\* The document holds no consent, retention or rights language.
NoConsentRetentionRights(t) ==
    \A i \in 1..Len(t) :
        Lower(t[i]) \notin {"consent", "retain", "right", "rights", "lawful",
                            "legitimate"}

\* C4: end to end, framework GDPR with AI analysis disabled, on a text that
\* states that personal data is collected and has no consent, retention or
\* rights language: the GDPR violations hold a High 'Missing Consent
\* Mechanism' and a Medium 'Missing Required Content', and the score is
\* below 100.
C4_EndToEndGdpr ==
    (/\ pc = "done"
     /\ ~includeAI
     /\ frameworks = <<"GDPR">>
     /\ StatesCollection(text)
     /\ NoConsentRetentionRights(text))
    => /\ ViolationsOf(results.violations["GDPR"],
                       "Missing Consent Mechanism", "High") /= {}
       /\ ViolationsOf(results.violations["GDPR"],
                       "Missing Required Content", "Medium") /= {}
       /\ results.overall_score < 100

\* The keyword groups of the category the last _check_rule_category call
\* was about.
LastCategoryGroups ==
    LET cats == FrameworkRules(catResult.framework)
        n == CHOOSE k \in 1..Len(cats) : cats[k].category = catResult.category
    IN  cats[n].required_keywords

\* C5: checkCategory emits exactly one Medium 'Missing Required Content'
\* violation when some required keyword group of the category has none of
\* its phrases in the text, and none when every group has a phrase present.
C5_MissingRequiredContent ==
    catResult.framework /= "" =>
        LET emitted == ViolationsOf(catResult.violations,
                                    "Missing Required Content", "Medium")
        IN  IF \E g \in 1..Len(LastCategoryGroups) :
                  ~CheckKeywordPresence(text, LastCategoryGroups[g])
            THEN ~catResult.raised /\ Cardinality(emitted) = 1
            ELSE ~catResult.raised /\ emitted = {}

\* C8: whatever the AI capability returns, malformed or missing fields
\* included, analyze returns a result instead of raising.
C8_MalformedAiNeverRaises ==
    insightCall = "returned" => pc /= "raised"

\* C9: when the document-insight call fails, analyze still returns: the
\* insights are the fixed fallback (summary 'AI analysis unavailable', risk
\* level 'unknown', no gaps, no strengths), scoring does not raise, and the
\* score is the one of the violations and PII entities alone.
C9_InsightFailureFallsBack ==
    insightCall = "failed" =>
        /\ pc \in {"score", "done"}
        /\ ~ScoreRaises(results)
        /\ results.ai_insights.summary = "AI analysis unavailable"
        /\ results.ai_insights.levelStr = "unknown"
        /\ results.ai_insights.compliance_gaps = <<>>
        /\ results.ai_insights.strengths = <<>>
        /\ DOMAIN results.violations = {frameworks[n] : n \in 1..Len(frameworks)}
        /\ pc = "done" =>
              results.overall_score =
                  Max(0, 100 - SumFrameworks(results.violations,
                                             DOMAIN results.violations)
                             - SumPii(results.pii_entities))

\* C9 witness: the insight call failed after AI violations and PII entities
\* were found, and analyze returned a score.
C9_Witness ==
    /\ pc = "done"
    /\ insightCall = "failed"
    /\ results.pii_entities /= <<>>
    /\ \E n \in 1..Len(results.violations["GDPR"]) :
          results.violations["GDPR"][n].location.kind = "Chunk"
    /\ results.overall_score < 100

\* C10: an error while evaluating one rule or one category skips that rule
\* alone: every pattern match of every category of a checked framework is
\* still among that framework's violations.
C10_RuleErrorSkipsOneRule ==
    \A fw \in DOMAIN results.violations :
        \A c \in 1..Len(FrameworkRules(fw)) :
            \A k \in 1..Len(FrameworkRules(fw)[c].patterns) :
                LET cat == FrameworkRules(fw)[c]
                    expected == PatternViolations(text, fw, cat.category,
                                                  cat.patterns[k])
                IN  \A n \in 1..Len(expected) :
                        \E m \in 1..Len(results.violations[fw]) :
                            results.violations[fw][m] = expected[n]

\* C11: analysis does not run on an empty or whitespace-only text: no rule
\* category is checked, no PII detection or scoring happens and no result
\* is returned for it.
C11_NoAnalysisOnBlankText ==
    IsBlank(text) =>
        /\ catResult = NoCategoryResult
        /\ DOMAIN results.violations = {}
        /\ pc \notin {"pii", "insights", "score", "done"}

\* C12: a failed AI violation call for one (framework, chunk) pair adds
\* nothing to that framework's list and leaves the analysis in the state a
\* call that succeeded with no findings leaves it in: the violations found
\* so far for the framework are kept, the lists of the frameworks already
\* checked are untouched, and the next chunk or framework is processed.
C12_AiFailureIsolated ==
    [][(pc = "ai_wait" /\ pc' /= "ai_wait" /\ aiResult'.failed) =>
          /\ aiResult'.violations = <<>>
          /\ AiExtend(<<>>)
          /\ \A fw \in DOMAIN results.violations :
                results'.violations[fw] = results.violations[fw]
          /\ IF chunkIdx < nChunks
             THEN violations' = violations
             ELSE results'.violations[frameworks[fwIdx]] = violations]_vars

\* C12 witness: the call for the second chunk of GDPR failed, and the
\* framework's list still holds its rule-based violation and the AI
\* violation of the first chunk.
C12_Witness ==
    /\ pc = "done"
    /\ aiResult.failed
    /\ aiResult.framework = "GDPR" /\ aiResult.chunk_index = 1
    /\ \E n \in 1..Len(results.violations["GDPR"]) :
          results.violations["GDPR"][n].location.kind = "Position"
    /\ \E n \in 1..Len(results.violations["GDPR"]) :
          results.violations["GDPR"][n].location = Location("Chunk", 1, 0)
    /\ \A n \in 1..Len(results.violations["GDPR"]) :
          results.violations["GDPR"][n].location /= Location("Chunk", 2, 0)

\* C13: with AI analysis enabled, the AI violation capability is invoked
\* exactly once for every (requested framework, chunk) pair: never more
\* often than the text has chunks, and, once the frameworks are checked, at
\* least once for each requested framework of a text with content, whatever
\* its rule-based check did.
C13_AiCalledOncePerPair ==
    (includeAI /\ ~IsBlank(text)) =>
        /\ \A n \in 1..Len(frameworks) :
              nChunks > 0 => aiCalls[frameworks[n]] <= nChunks
        /\ pc \in {"pii", "insights", "score", "done", "raised"} =>
              \A n \in 1..Len(frameworks) :
                  /\ aiCalls[frameworks[n]] >= 1
                  /\ aiCalls[frameworks[n]] = nChunks

\* C14: a pending AI violation call does not block the rule-based checks of
\* the other frameworks: while the call for one framework has not returned
\* and a requested framework is still unchecked, a rule-category check can
\* be taken.
C14_AiCallDoesNotBlockRules ==
    (pc = "ai_wait" /\ fwIdx < Len(frameworks)) => ENABLED CheckCategory

\* The elements of a list.
Elems(seq) == {seq[i] : i \in 1..Len(seq)}

\* C15: when the candidate being processed overlaps an accepted entity, it
\* replaces that entity only if its confidence is strictly greater; with an
\* equal or lower confidence it is discarded and the accepted list stays as
\* it was. Of two overlapping candidates of different confidence only the
\* higher one is returned.
C15_ReplaceOnlyIfStrictlyGreater ==
    rpc = "done" =>
        LET sorted == SortEntities(entities)
        IN  /\ deduplicated = DedupLoop(<<>>, sorted)
            /\ \A k \in 1..Len(sorted) :
                  LET accepted == DedupLoop(<<>>, SubSeq(sorted, 1, k - 1))
                      candidate == sorted[k]
                      after == ProcessEntity(accepted, candidate)
                  IN  \A i \in 1..Len(accepted) :
                          Overlaps(candidate, accepted[i]) =>
                              IF candidate.confidence > accepted[i].confidence
                              THEN /\ accepted[i] \notin Elems(after)
                                   /\ candidate \in Elems(after)
                              ELSE after = accepted
            /\ (/\ Len(entities) = 2
                /\ Overlaps(entities[1], entities[2])
                /\ entities[1].confidence > entities[2].confidence)
               => deduplicated = <<entities[1]>>
            /\ (/\ Len(entities) = 2
                /\ Overlaps(entities[1], entities[2])
                /\ entities[1].confidence < entities[2].confidence)
               => deduplicated = <<entities[2]>>

\* C15 witness: two overlapping candidates of equal confidence and different
\* labels; the one sorted first was accepted and the other discarded.
C15_Witness ==
    /\ rpc = "done"
    /\ Len(entities) = 2
    /\ Overlaps(entities[1], entities[2])
    /\ entities[1].confidence = entities[2].confidence
    /\ entities[1].label /= entities[2].label
    /\ deduplicated = <<SortEntities(entities)[1]>>

\* C16: every entity resolve returns is one of the input candidates, with
\* its label, start, end, confidence and detection method unchanged, and
\* resolve returns no more entities than it was given.
C16_OutputFromInput ==
    rpc = "done" =>
        /\ \A i \in 1..Len(deduplicated) :
              \E j \in 1..Len(entities) : deduplicated[i] = entities[j]
        /\ Len(deduplicated) <= Len(entities)

\* C16 witness: a candidate lying strictly inside a lower-confidence span
\* replaced it and was returned with its own, narrower span.
C16_Witness ==
    /\ rpc = "done"
    /\ Len(entities) = 2
    /\ \E i, j \in 1..2 :
          /\ entities[i].confidence < entities[j].confidence
          /\ entities[i].start < entities[j].start
          /\ entities[j].end < entities[i].end
          /\ deduplicated = <<entities[j]>>

\* C17: the risk-level cap is applied after all subtractions and only
\* lowers. With s the value after the violation and PII subtractions, the
\* score is s capped at 60 for level High and at 80 for level Medium, then
\* clamped to 0..100; a value below the cap is left as it is, and an absent
\* or any other level applies no cap.
C17_RiskCapAfterSubtractions ==
    spc = "build" =>
        LET s == 100 - SumFrameworks(results.violations, DOMAIN results.violations)
                     - SumPii(results.pii_entities)
            level == results.ai_insights.levelStr
            score == results.overall_score
        IN  /\ level \in {"High", "high"} => score = Max(0, Min(s, 60))
            /\ level \in {"Medium", "medium"} => score = Max(0, Min(s, 80))
            /\ level \notin {"High", "high", "Medium", "medium"} => score = Max(0, s)
            /\ results.ai_insights.level = "absent" => score = Max(0, s)

\* C17 witness: level Medium and a value between 60 and 80 after the
\* subtractions: below the cap of 80, it is the score.
C17_Witness ==
    /\ spc = "build"
    /\ results.ai_insights.levelStr = "medium"
    /\ results.overall_score \in 61..79
    /\ results.overall_score =
          100 - SumFrameworks(results.violations, DOMAIN results.violations)
              - SumPii(results.pii_entities)

InitViolationScore == RawViolationInput /\ ResolveIdle /\ LuhnIdle /\ ChunkIdle /\ AnalyzeIdle
NextViolationScore == AddRawViolation
SpecViolationScore == InitViolationScore /\ [][NextViolationScore]_vars

\* The deduction the shared severity mapping gives a violation: 15 when its
\* severity normalizes to High, 8 for Medium, 3 for Low, a missing severity
\* counting as Medium.
NormalizedDeduction(v) ==
    LET severity == IF "severity" \in DOMAIN v
                    THEN DetermineSeverity(v.severity) ELSE "Medium"
    IN  IF severity = "High" THEN 15 ELSE IF severity = "Medium" THEN 8 ELSE 3

\* C18: every violation lowers the uncapped score by the deduction of its
\* normalized severity (High 15, Medium 8, Low 3; critical counts as High,
\* warning as Medium, info as Low, unrecognized or missing as Medium), so
\* by at least 3.
C18_DeductionByNormalizedSeverity ==
    [][(spc = "violations"
            /\ Len(results'.violations["GDPR"]) = Len(results.violations["GDPR"]) + 1
            /\ results.overall_score >= 15)
        => LET v == results'.violations["GDPR"][Len(results'.violations["GDPR"])]
           IN  /\ results.overall_score - results'.overall_score
                     = NormalizedDeduction(v)
               /\ results'.overall_score <= results.overall_score - 3]_vars

InitPiiScore == RawPiiInput /\ ResolveIdle /\ LuhnIdle /\ ChunkIdle /\ AnalyzeIdle
NextPiiScore == AddRawPii
SpecPiiScore == InitPiiScore /\ [][NextPiiScore]_vars

\* C19: every PII entity lowers the score by 10 if its upper-cased label is
\* one of SSN, CREDIT_CARD, PASSPORT, DRIVER_LICENSE and its confidence is
\* strictly above 0.8, otherwise by 5 if its confidence is strictly above
\* 0.7, otherwise by 2.
C19_PiiDeduction ==
    [][(spc = "pii" /\ Len(results'.pii_entities) = Len(results.pii_entities) + 1)
        => LET e == results'.pii_entities[Len(results'.pii_entities)]
               highRisk == e.label \in {"SSN", "ssn", "CREDIT_CARD", "PASSPORT",
                                        "DRIVER_LICENSE"}
           IN  /\ results.pii_entities = <<>> => results.overall_score = 100
               /\ results.overall_score - results'.overall_score =
                     IF highRisk /\ e.confidence > 80 THEN 10
                     ELSE IF e.confidence > 70 THEN 5
                     ELSE 2]_vars

\* C19 witness: a CREDIT_CARD entity of confidence exactly 0.8 and a
\* DRIVER_LICENSE entity of confidence exactly 0.7 cost 5 and 2.
C19_Witness ==
    /\ spc = "pii"
    /\ Len(results.pii_entities) = 2
    /\ results.pii_entities[1].label = "CREDIT_CARD"
    /\ results.pii_entities[1].confidence = 80
    /\ results.pii_entities[2].label = "DRIVER_LICENSE"
    /\ results.pii_entities[2].confidence = 70
    /\ results.overall_score = 93

InitSeverity == SeverityInput /\ ResolveIdle /\ LuhnIdle /\ ChunkIdle
NextSeverity ==
    CheckCategory \/ AiCall \/ AiChunkSeverity \/ DetectPiiStep \/ AiInsights
        \/ ComputeScore
SpecSeverity == InitSeverity /\ [][NextSeverity]_vars

\* What the severity mapping gives a string, upper, lower and capitalized
\* spellings written out.
NormalizedSeverity(str) ==
    IF str \in {"high", "High", "HIGH", "critical", "Critical", "CRITICAL"}
    THEN "High"
    ELSE IF str \in {"low", "Low", "LOW", "info", "Info", "INFO"}
    THEN "Low"
    ELSE "Medium"

\* C20: _determine_severity maps its input case-insensitively: high and
\* critical to 'High', medium and warning to 'Medium', low and info to
\* 'Low', every other string to 'Medium'. Seen on the violation built from
\* each AI finding.
C20_SeverityNormalization ==
    (aiResult.framework /= "" /\ ~aiResult.failed) =>
        /\ Len(aiResult.violations) = Len(aiResult.findings)
        /\ \A n \in 1..Len(aiResult.findings) :
              /\ aiResult.violations[n].severity
                    = NormalizedSeverity(aiResult.findings[n].severity)
              /\ aiResult.findings[n].severity \in
                    {"medium", "Medium", "MEDIUM", "warning", "Warning",
                     "WARNING", "urgent", "Urgent", ""}
                    => aiResult.violations[n].severity = "Medium"

\* C20 witness: findings of severity 'CRITICAL' and 'Info' became a High and
\* a Low violation of the result.
C20_Witness ==
    /\ pc = "done"
    /\ aiResult.findings /= <<>>
    /\ aiResult.findings[1].severity = "Info"
    /\ aiResult.violations[1].severity = "Low"
    /\ \E n \in 1..Len(results.violations["GDPR"]) :
          /\ results.violations["GDPR"][n].location = Location("Chunk", 1, 0)
          /\ results.violations["GDPR"][n].severity = "High"
    /\ \E n \in 1..Len(results.violations["GDPR"]) :
          /\ results.violations["GDPR"][n].location = Location("Chunk", 2, 0)
          /\ results.violations["GDPR"][n].severity = "Low"

\* C21: for a text longer than maxLength and 0 < overlap < maxLength, each
\* chunk after the first begins inside the previous chunk: the window of
\* every loop iteration but the first starts before the previous window's
\* end.
C21_ChunksOverlap ==
    (/\ cpc = "done"
     /\ Len(cText) > cMaxLength
     /\ 0 < cOverlap /\ cOverlap < cMaxLength)
    => \A w \in 2..Len(cWindows) : cWindows[w].start < cWindows[w - 1].end

\* C22: for every text, one no longer than maxLength included, no returned
\* chunk is empty or whitespace-only.
C22_NoBlankChunk ==
    cpc = "done" => \A i \in 1..Len(cChunks) : Strip(cChunks[i]) /= <<>>

\* The windows whose stripped content is not empty: the ones the loop made
\* a chunk of.
KeptWindows ==
    LET NotBlank(w) == Strip(Slice(cText, w.start, w.end)) /= <<>>
    IN  SelectSeq(cWindows, NotBlank)

\* C23: every returned chunk has at most maxLength characters and is a
\* contiguous substring of the text, and the chunks come in the order of
\* their position: a text no longer than maxLength is its own single chunk;
\* otherwise the i-th chunk is the stripped content of the i-th non-blank
\* window, and each window ends where or before the next one starts.
C23_ChunksBoundedOrdered ==
    cpc = "done" =>
        /\ \A i \in 1..Len(cChunks) :
              /\ Len(cChunks[i]) <= cMaxLength
              /\ \E a \in 0..Len(cText) :
                    /\ a + Len(cChunks[i]) <= Len(cText)
                    /\ SubSeq(cText, a + 1, a + Len(cChunks[i])) = cChunks[i]
        /\ IF Len(cText) <= cMaxLength
           THEN cChunks = <<cText>>
           ELSE /\ Len(cChunks) = Len(KeptWindows)
                /\ \A i \in 1..Len(cChunks) :
                      /\ cChunks[i] = Strip(Slice(cText, KeptWindows[i].start,
                                                  KeptWindows[i].end))
                      /\ KeptWindows[i].end - KeptWindows[i].start <= cMaxLength
                /\ \A w \in 2..Len(cWindows) :
                      cWindows[w - 1].end <= cWindows[w].start

\* C23 witness: a long text gave at least two chunks, one of them of
\* exactly maxLength characters and one shortened by strip().
C23_Witness ==
    /\ cpc = "done"
    /\ Len(cText) > cMaxLength
    /\ Len(cChunks) >= 2
    /\ \E i \in 1..Len(cChunks) : Len(cChunks[i]) = cMaxLength
    /\ \E i \in 1..Len(cChunks) :
          Len(cChunks[i]) < KeptWindows[i].end - KeptWindows[i].start

InitLuhn == LuhnInput /\ ResolveIdle /\ ChunkIdle /\ ScoreIdle /\ AnalyzeIdle
NextLuhn == ValidateCard
SpecLuhn == InitLuhn /\ [][NextLuhn]_vars

\* The Luhn sum of a digit string, counted from the right: the digit at
\* position k from the right (the rightmost is 1) is doubled when k is even,
\* and 9 is subtracted from a doubled value above 9.
RECURSIVE LuhnSumFromRight(_, _)
LuhnSumFromRight(ds, k) ==
    IF ds = <<>> THEN 0
    ELSE LET d == DigitValue(ds[Len(ds)])
             term == IF k % 2 = 1 THEN d
                     ELSE IF 2 * d > 9 THEN 2 * d - 9 ELSE 2 * d
         IN  term + LuhnSumFromRight(SubSeq(ds, 1, Len(ds) - 1), k + 1)

\* C24: a credit-card candidate is kept exactly when its text, '-' and ' '
\* removed, consists only of digits and has a Luhn sum of 0 modulo 10;
\* 4111111111111111 is accepted and 4111111111111112 is rejected.
C24_LuhnValidation ==
    lpc = "done" =>
        LET number == Remove(Remove(cardText, "-"), " ")
        IN  /\ cardKept <=> (/\ number /= <<>>
                             /\ \A i \in 1..Len(number) : number[i] \in Digits
                             /\ LuhnSumFromRight(number, 1) % 10 = 0)
            /\ cardText = Card4111Valid => cardKept
            /\ cardText = Card4111Invalid => ~cardKept

\* C24 witness: a digit string of odd length with a doubled digit above 9
\* was accepted.
C24_Witness ==
    /\ lpc = "done"
    /\ cardText = <<"0", "5", "9">>
    /\ cardKept

\* C25: the list resolve returns is sorted by start ascending, and so is
\* the list PII detection makes of it.
C25_SortedByStart ==
    rpc = "done" =>
        /\ \A i \in 1..(Len(deduplicated) - 1) :
              deduplicated[i].start <= deduplicated[i + 1].start
        /\ LET pii_entities == DetectPii(entities)
           IN  \A i \in 1..(Len(pii_entities) - 1) :
                   pii_entities[i].start <= pii_entities[i + 1].start

\* C25 witness: candidates handed over in descending start order, two of
\* them returned.
C25_Witness ==
    /\ rpc = "done"
    /\ Len(entities) = 3
    /\ entities[1].start > entities[2].start
    /\ entities[2].start > entities[3].start
    /\ Len(deduplicated) = 2

\* C28: every input candidate absent from resolve's output overlaps at
\* least one entity of the output.
C28_DroppedOverlapsOutput ==
    rpc = "done" =>
        \A i \in 1..Len(entities) :
            entities[i] \notin Elems(deduplicated) =>
                \E j \in 1..Len(deduplicated) :
                    Overlaps(entities[i], deduplicated[j])

\* C29: resolve is idempotent: called on its own output it returns the
\* same entities in the same order.
C29_Idempotent ==
    rpc = "again" => deduplicated = entities

\* C29 witness: the second call was made on a list of two entities of
\* different confidence that the first call returned.
C29_Witness ==
    /\ rpc = "again"
    /\ Len(entities) = 2
    /\ entities[1].confidence /= entities[2].confidence
    /\ Len(deduplicated) = 2

\* C26: with AI analysis disabled analyze calls neither AI capability and
\* does not chunk the text for it, the insights stay empty, no violation
\* carries a chunk location, and the score is the one of the violations and
\* PII entities with no risk-level cap.
C26_NoAiWhenDisabled ==
    (~includeAI /\ pc \notin {"idle", "rejected"}) =>
        /\ \A fw \in DOMAIN aiCalls : aiCalls[fw] = 0
        /\ nChunks = 0
        /\ aiResult = NoAiResult
        /\ insightCall = "none"
        /\ pc \notin {"ai", "ai_wait", "insights", "raised"}
        /\ results.ai_insights = EmptyInsights
        /\ \A fw \in DOMAIN results.violations :
              \A n \in 1..Len(results.violations[fw]) :
                  results.violations[fw][n].location.kind /= "Chunk"
        /\ pc = "done" =>
              results.overall_score =
                  Max(0, 100 - SumFrameworks(results.violations,
                                             DOMAIN results.violations)
                             - SumPii(results.pii_entities))

\* C26 witness: an analysis without AI returned rule-based violations for
\* two frameworks and PII entities, with a score below 100.
C26_Witness ==
    /\ pc = "done"
    /\ ~includeAI
    /\ frameworks = <<"GDPR", "SOC2">>
    /\ results.violations["GDPR"] /= <<>>
    /\ results.pii_entities /= <<>>
    /\ results.overall_score < 100

\* analyze_document with an AI service that is down: every call made to it
\* raises.
InitDegraded == AnalyzeInput /\ ResolveIdle /\ LuhnIdle /\ ChunkIdle
NextDegraded ==
    CheckCategory \/ AiCall \/ AiChunkFails \/ DetectPiiStep \/ AiInsightsFail
        \/ ComputeScore
SpecDegraded == InitDegraded /\ [][NextDegraded]_vars

\* The violations the rule categories k.. of a framework give a text: the
\* categories in order, up to the first whose check raises.
RECURSIVE RuleViolationsFrom(_, _, _)
RuleViolationsFrom(doc, fw, k) ==
    LET cats == FrameworkRules(fw)
    IN  IF k > Len(cats) THEN <<>>
        ELSE LET r == CheckRuleCategory(doc, cats[k].category, cats[k], fw)
             IN  IF r.raised THEN <<>>
                 ELSE r.violations \o RuleViolationsFrom(doc, fw, k + 1)

\* C27: when every AI call fails, a returned analysis has, with AI enabled
\* as with AI disabled, the rule-based violations of the text for each
\* framework and nothing else, and the score of those violations and the
\* PII entities with no cap: the two runs differ in ai_insights only, the
\* enabled one carrying the fallback whose risk level is "unknown".
C27_GracefulDegradation ==
    pc = "done" =>
        /\ DOMAIN results.violations = {frameworks[n] : n \in 1..Len(frameworks)}
        /\ \A fw \in DOMAIN results.violations :
              results.violations[fw] = RuleViolationsFrom(text, fw, 1)
        /\ results.overall_score =
              Max(0, 100 - SumFrameworks(results.violations,
                                         DOMAIN results.violations)
                         - SumPii(results.pii_entities))
        /\ results.ai_insights =
              IF includeAI THEN FallbackInsights ELSE EmptyInsights

\* C27 witness: an analysis with AI enabled whose chunk call and insight
\* call both failed returned rule-based violations, PII entities and a
\* score below 100.
C27_Witness ==
    /\ pc = "done"
    /\ includeAI
    /\ aiCalls["GDPR"] > 0
    /\ aiResult.failed
    /\ insightCall = "failed"
    /\ results.violations["GDPR"] /= <<>>
    /\ results.pii_entities /= <<>>
    /\ results.overall_score < 100

\* The number of violations of severity sev in the list vs.
SeverityCount(vs, sev) ==
    Cardinality({n \in 1..Len(vs) : vs[n].severity = sev})

\* C30: every violation analyze_document collects or returns, rule-based or
\* built from an AI finding, has severity 'High', 'Medium' or 'Low', the
\* scorer's deduction for it is 15, 8 or 3, and the deductions for a
\* framework's list add up to 15, 8 and 3 times its counts of the three.
C30_SeverityAlwaysScored ==
    /\ \A n \in 1..Len(violations) :
          /\ violations[n].severity \in {"High", "Medium", "Low"}
          /\ ViolationDeduction(violations[n]) \in {15, 8, 3}
    /\ \A fw \in DOMAIN results.violations :
          LET vs == results.violations[fw]
          IN  /\ \A n \in 1..Len(vs) :
                    /\ vs[n].severity \in {"High", "Medium", "Low"}
                    /\ ViolationDeduction(vs[n]) =
                          CASE vs[n].severity = "High" -> 15
                            [] vs[n].severity = "Medium" -> 8
                            [] vs[n].severity = "Low" -> 3
              /\ SumViolations(vs) =
                    15 * SeverityCount(vs, "High")
                        + 8 * SeverityCount(vs, "Medium")
                        + 3 * SeverityCount(vs, "Low")

\* C30 witness: a returned analysis holds a rule-based High violation and
\* the Medium violation made from an AI finding of severity 'urgent', and
\* both were deducted.
C30_Witness ==
    /\ pc = "done"
    /\ aiResult.findings /= <<>>
    /\ aiResult.findings[1].severity = "urgent"
    /\ \E n \in 1..Len(results.violations["GDPR"]) :
          /\ results.violations["GDPR"][n].location.kind = "Position"
          /\ results.violations["GDPR"][n].severity = "High"
    /\ \E n \in 1..Len(results.violations["GDPR"]) :
          /\ results.violations["GDPR"][n].location.kind = "Chunk"
          /\ results.violations["GDPR"][n].severity = "Medium"
    /\ results.overall_score <= 100 - 15 - 8
====
